---------------------------- MODULE Spec2Model ----------------------------
(* kasperl-plots: the CSV plot reader (reader/_csv.py), the CSV plot writer *)
(* (writer/_csv.py) and the three rendering writers (writer/_graphical.py,  *)
(* writer/_sixel.py, writer/_terminal.py), as a state machine.              *)
(*                                                                          *)
(* Text is a sequence of one-character strings, so that the CSV encoding    *)
(* (quoting, separators, line terminators) and its decoding are computed    *)
(* character by character as the csv module does.  An optional value is a   *)
(* sequence of length at most one: None is <<>>, Some(v) is <<v>>.          *)
EXTENDS Integers, Sequences, FiniteSets, TLC

VARIABLES
    reader,     \* the CsvPlotReader object: its options and private fields
    session,    \* the session object shared with the framework (current_input)
    writer,     \* the writer object of the pipeline: its class, options, fields
    fs,         \* the file system: path -> NoFile, a text file or an image file
    plt,        \* matplotlib.pyplot's current figure (GraphicalPlot, SixelPlot)
    plx,        \* plotext's current figure (TerminalPlot)
    stdout,     \* what has been streamed to the terminal, in order
    log,        \* the logger's warnings, in order
    emitted,    \* the Plots yielded by read() since initialize(), in order
    error,      \* the exception the last call raised (None when it returned)
    io,         \* the reader's I/O since initialize(): locate_files and open calls
    resolved,   \* the list locate_files returned to the first read()
    last,       \* the last call made: its name and what it returned
    phase,      \* where the framework is in the reader's and the writer's life cycle
    calls       \* the number of write_batch calls made so far

vars == <<reader, session, writer, fs, plt, plx, stdout, log, emitted, error,
          io, resolved, last, phase, calls>>

-----------------------------------------------------------------------------
(* Bounds of the model.                                                     *)

\* the largest number of data rows in a sample input file
MaxRows == 3

\* the largest number of write_batch calls in a behaviour
MaxCalls == 2

\* the largest number of I/O calls of the reader between two initialize() calls
MaxIo == 4

-----------------------------------------------------------------------------
(* Optional values and Python values.                                       *)

None == <<>>

Some(v) == <<v>>

IsNone(o) == o = <<>>

Get(o) == o[1]

\* a Python str, int or None held in a Plot's data sequence
PyStr(chars) == [t |-> "str", v |-> chars]

PyInt(n) == [t |-> "int", v |-> n]

PyNone == [t |-> "NoneType"]

Digit(d) == <<"0", "1", "2", "3", "4", "5", "6", "7", "8", "9">>[d + 1]

RECURSIVE Decimal(_)
\* str(n) of a non-negative int: its decimal digits
Decimal(n) == IF n < 10 THEN <<Digit(n)>> ELSE Decimal(n \div 10) \o <<Digit(n % 10)>>

\* int(s) of a text of decimal digits
RECURSIVE IntOf(_)
IntOf(chars) ==
    IF Len(chars) = 0 THEN 0
    ELSE LET d == CHOOSE k \in 0..9 : Digit(k) = chars[Len(chars)]
         IN  10 * IntOf(SubSeq(chars, 1, Len(chars) - 1)) + d

-----------------------------------------------------------------------------
(* The csv module: csv.writer(fp, delimiter=sep).writerow and               *)
(* csv.reader(fp, delimiter=sep) on a file opened with newline=''.          *)

QuoteChar == "\""

CR == "\r"

LF == "\n"

\* csv.writer's text of one value: None is the empty text, a str is itself,
\* anything else is str(value)
FieldText(value) ==
    IF value.t = "NoneType" THEN <<>>
    ELSE IF value.t = "str" THEN value.v
    ELSE Decimal(value.v)

\* QUOTE_MINIMAL: a field is quoted when it holds the delimiter, the quote
\* character or a character of the line terminator
NeedsQuotes(chars, sep) ==
    \E i \in 1..Len(chars) : chars[i] \in {sep, QuoteChar, CR, LF}

RECURSIVE DoubleQuotes(_)
DoubleQuotes(chars) ==
    IF Len(chars) = 0 THEN <<>>
    ELSE (IF Head(chars) = QuoteChar THEN <<QuoteChar, QuoteChar>> ELSE <<Head(chars)>>)
         \o DoubleQuotes(Tail(chars))

Quoted(chars) == <<QuoteChar>> \o DoubleQuotes(chars) \o <<QuoteChar>>

RECURSIVE JoinFields(_, _)
JoinFields(fields, sep) ==
    IF Len(fields) = 0 THEN <<>>
    ELSE IF Len(fields) = 1 THEN fields[1]
    ELSE fields[1] \o <<sep>> \o JoinFields(Tail(fields), sep)

\* writer.writerow(values): the fields, quoted where needed, joined by the
\* delimiter and ended by "\r\n"; a row of one empty field is written as ""
WriteRow(values, sep) ==
    LET texts == [i \in 1..Len(values) |-> FieldText(values[i])]
        fields == [i \in 1..Len(texts) |->
                     IF NeedsQuotes(texts[i], sep) THEN Quoted(texts[i]) ELSE texts[i]]
    IN  IF Len(texts) = 1 /\ texts[1] = <<>>
        THEN <<QuoteChar, QuoteChar, CR, LF>>
        ELSE JoinFields(fields, sep) \o <<CR, LF>>

RECURSIVE WriteRows(_, _)
WriteRows(rows, sep) ==
    IF Len(rows) = 0 THEN <<>>
    ELSE WriteRow(Head(rows), sep) \o WriteRows(Tail(rows), sep)

\* The end-of-line marker the reader feeds its state machine after each line
\* of the file; with newline='' a line ends after "\n", after "\r\n", or after
\* a "\r" that no "\n" follows, and the last line ends at the end of the file.
EOL == "EOL"

RECURSIVE Lines(_, _)
Lines(text, i) ==
    IF i > Len(text) THEN <<>>
    ELSE LET c == text[i]
             ends == \/ c = LF
                     \/ c = CR /\ (i = Len(text) \/ text[i + 1] # LF)
                     \/ i = Len(text)
         IN  (IF ends THEN <<c, EOL>> ELSE <<c>>) \o Lines(text, i + 1)

\* The reader's state machine (parse_process_char), run over the whole file.
\* st is the parser state, field the characters of the field being read,
\* fields the fields of the record being read, rows the records returned.
RECURSIVE Parse(_, _, _, _, _, _, _)
Parse(cs, i, st, field, fields, rows, sep) ==
    IF i > Len(cs)
    THEN \* end of input: an unterminated quoted field is saved and returned
         IF st = "IN_QUOTED_FIELD" \/ Len(field) # 0
         THEN Append(rows, Append(fields, field))
         ELSE rows
    ELSE
    LET c == cs[i]
        nl == c \in {CR, LF}
        \* START_RECORD with anything but a line end falls through to START_FIELD
        s == IF st = "START_RECORD" /\ c # EOL /\ ~nl THEN "START_FIELD" ELSE st
    IN  CASE s = "START_RECORD" /\ c = EOL ->
               \* an empty line is returned as an empty record
               Parse(cs, i + 1, "START_RECORD", <<>>, <<>>, Append(rows, fields), sep)
          [] s = "START_RECORD" /\ nl ->
               Parse(cs, i + 1, "EAT_CRNL", field, fields, rows, sep)
          [] s \in {"START_FIELD", "IN_FIELD", "QUOTE_IN_QUOTED_FIELD"} /\ c = EOL ->
               Parse(cs, i + 1, "START_RECORD", <<>>, <<>>,
                     Append(rows, Append(fields, field)), sep)
          [] s \in {"START_FIELD", "IN_FIELD", "QUOTE_IN_QUOTED_FIELD"} /\ nl ->
               Parse(cs, i + 1, "EAT_CRNL", <<>>, Append(fields, field), rows, sep)
          [] s \in {"START_FIELD", "IN_FIELD", "QUOTE_IN_QUOTED_FIELD"} /\ c = sep ->
               Parse(cs, i + 1, "START_FIELD", <<>>, Append(fields, field), rows, sep)
          [] s = "START_FIELD" /\ c = QuoteChar /\ c # sep ->
               Parse(cs, i + 1, "IN_QUOTED_FIELD", field, fields, rows, sep)
          [] s = "QUOTE_IN_QUOTED_FIELD" /\ c = QuoteChar /\ c # sep ->
               Parse(cs, i + 1, "IN_QUOTED_FIELD", Append(field, c), fields, rows, sep)
          [] s = "IN_QUOTED_FIELD" /\ c = EOL ->
               Parse(cs, i + 1, s, field, fields, rows, sep)
          [] s = "IN_QUOTED_FIELD" /\ c = QuoteChar ->
               Parse(cs, i + 1, "QUOTE_IN_QUOTED_FIELD", field, fields, rows, sep)
          [] s = "IN_QUOTED_FIELD" /\ c # EOL /\ c # QuoteChar ->
               Parse(cs, i + 1, s, Append(field, c), fields, rows, sep)
          [] s = "EAT_CRNL" /\ c = EOL ->
               Parse(cs, i + 1, "START_RECORD", <<>>, <<>>, Append(rows, fields), sep)
          [] s = "EAT_CRNL" /\ c # EOL ->
               Parse(cs, i + 1, s, field, fields, rows, sep)
          [] OTHER ->
               \* any other character is added to the field
               Parse(cs, i + 1, "IN_FIELD", Append(field, c), fields, rows, sep)

\* list(csv.reader(fp, delimiter=sep)): the rows of the file, in order
ReadRows(text, sep) == Parse(Lines(text, 1), 1, "START_RECORD", <<>>, <<>>, <<>>, sep)


-----------------------------------------------------------------------------
(* Files.                                                                   *)

InA == "in/a.csv"

InB == "in/b.csv"

OutCsv == "out/plot.csv"

OutPng == "out/plot.png"

TmpPng == "/tmp/uuid1.png"

Paths == {InA, InB, OutCsv, OutPng, TmpPng}

NoFile == [kind |-> "none"]

TextFile(text) == [kind |-> "text", text |-> text]

ImageFile(figure) == [kind |-> "image", figure |-> figure]

\* os.path.basename of the paths of the model
Basename(path) ==
    CASE path = InA -> "a.csv"
      [] path = InB -> "b.csv"
      [] path = OutCsv -> "plot.csv"
      [] path = OutPng -> "plot.png"
      [] OTHER -> "uuid1.png"

\* a well-formed two-column file of n data rows: t,v / 1,10 / 2,20 ...
GoodRows(n) ==
    << <<PyStr(<<"t">>), PyStr(<<"v">>)>> >>
    \o [i \in 1..n |-> <<PyStr(Decimal(i)), PyStr(Decimal(10 * i))>>]

GoodFile(n) == WriteRows(GoodRows(n), ",")

\* a file whose second row has one cell only
ShortRowFile == <<"t", ",", "v", CR, LF, "1", CR, LF>>

\* a file with a quoted cell, ";" in a cell and bare "\n" line ends
QuotedFile == <<"k", ",", QuoteChar, "a", ",", "b", QuoteChar, LF, "7", ",", "8", ";", "9", LF>>

\* a ";"-separated file
SemiFile == <<"t", ";", "v", CR, LF, "1", ";", "5", CR, LF>>

EmptyFile == <<>>

FileTexts == {GoodFile(n) : n \in 0..MaxRows} \cup {ShortRowFile, QuotedFile, SemiFile, EmptyFile}

-----------------------------------------------------------------------------
(* The Plot data model (kasperl.api), as the reader builds it and the       *)
(* writers take it apart.                                                   *)

XYPlot(title, x_data, x_label, y_data, y_label, metadata) ==
    [cls |-> "XYPlot", title |-> title, x_data |-> x_data, x_label |-> x_label,
     y_data |-> y_data, y_label |-> y_label, metadata |-> metadata]

SequencePlot(title, data, label, metadata) ==
    [cls |-> "SequencePlot", title |-> title, data |-> data, label |-> label,
     metadata |-> metadata]

-----------------------------------------------------------------------------
(* CsvPlotReader.                                                           *)

\* the object __init__ leaves
NewReader ==
    [source |-> None, source_list |-> None, resume_from |-> None, title |-> None,
     x_data |-> None, x_label |-> None, y_data |-> None, y_label |-> None,
     separator |-> None, _inputs |-> None, _current_input |-> None,
     _x_col |-> None, _y_col |-> None]

\* _apply_args: the options of the parsed namespace are stored as given
ApplyArgs(r, input, title, xd, xl, yd, yl, sep) ==
    [r EXCEPT !.source = input, !.source_list = None, !.resume_from = None,
              !.title = title, !.x_data = xd, !.x_label = xl, !.y_data = yd,
              !.y_label = yl, !.separator = sep]

\* an initialize() that resolves the sources before it checks the Y column
InitializeResolvesFirst(r) ==
    LET found == SelectSeq(IF IsNone(r.source) THEN <<>> ELSE Get(r.source),
                           LAMBDA p : fs[p].kind # "none")
        r0 == [r EXCEPT !._inputs = Some(found)]
    IN  IF IsNone(r.y_data)
        THEN [reader |-> r0, error |-> Some("Exception: Y column"),
              io |-> <<[op |-> "locate_files"]>>]
        ELSE [reader |-> [r0 EXCEPT
                            !._y_col = Some(IntOf(Get(r.y_data)) - 1),
                            !._x_col = IF IsNone(r.x_data) THEN None
                                       ELSE Some(IntOf(Get(r.x_data)) - 1),
                            !.separator = IF IsNone(r.separator) THEN Some(",")
                                          ELSE r.separator],
              error |-> None, io |-> <<[op |-> "locate_files"]>>]

\* initialize(): what it leaves of the reader, and the exception it raises
InitializeResult(r) ==
    LET r0 == [r EXCEPT !._inputs = None]
    IN  IF IsNone(r.y_data)
        THEN [reader |-> r0, error |-> Some("Exception: Y column"), io |-> <<>>]
        ELSE [reader |-> [r0 EXCEPT
                            !._y_col = Some(IntOf(Get(r.y_data)) - 1),
                            !._x_col = IF IsNone(r.x_data) THEN None
                                       ELSE Some(IntOf(Get(r.x_data)) - 1),
                            !.separator = IF IsNone(r.separator) THEN Some(",")
                                          ELSE r.separator],
              error |-> None, io |-> <<>>]

\* seppl.io.locate_files(source, fail_if_empty=True): the configured paths
\* that name a file, in the order given
LocateFiles(source, fsys) ==
    IF IsNone(source) THEN <<>>
    ELSE SelectSeq(Get(source), LAMBDA p : fsys[p].kind # "none")

\* row[col] of a parsed row, col 0-based: the cell, or an IndexError
HasCell(row, col) == col + 1 <= Len(row)

\* lines 151-175 of read(): the Plot built from the rows of one file, or the
\* IndexError of a row without a cell at a configured column
BuildPlot(r, rows, path) ==
    LET xy == ~IsNone(r._x_col)
        yc == Get(r._y_col)
        bad == \E i \in 1..Len(rows) :
                  \/ xy /\ ~HasCell(rows[i], Get(r._x_col))
                  \/ ~HasCell(rows[i], yc)
        x_label == IF xy /\ Len(rows) > 0 THEN Some(rows[1][Get(r._x_col) + 1]) ELSE None
        y_label == IF Len(rows) > 0 THEN Some(rows[1][yc + 1]) ELSE None
        x == [i \in 1..Len(rows) |-> PyStr(rows[i][Get(r._x_col) + 1])]
        y == [i \in 1..Len(rows) |-> PyStr(rows[i][yc + 1])]
        title == IF ~IsNone(r.title) THEN r.title ELSE Some(Basename(path))
        meta == [source |-> path]
    IN  IF bad THEN [error |-> Some("IndexError"), plots |-> <<>>]
        ELSE IF xy
        THEN [error |-> None, plots |-> <<XYPlot(title, x, x_label, y, y_label, meta)>>]
        ELSE [error |-> None, plots |-> <<SequencePlot(title, y, y_label, meta)>>]

\* a look at the first path that leaves it on the list
PeekFirst(inputs) == [item |-> Head(inputs), rest |-> inputs]

\* a pop from the wrong end of the list
PopLast(inputs) ==
    [item |-> inputs[Len(inputs)], rest |-> SubSeq(inputs, 1, Len(inputs) - 1)]

\* self._inputs.pop(0): the first path, and the list without it
Pop0(inputs) == [item |-> Head(inputs), rest |-> Tail(inputs)]

\* read(), iterated: the reader it leaves, the Plots it yields, the exception
\* it raises and the I/O it performs
ReadResult(r, fsys) ==
    LET first == IsNone(r._inputs)
        found == LocateFiles(r.source, fsys)
        inputs == IF first THEN found ELSE Get(r._inputs)
        io1 == IF first THEN <<[op |-> "locate_files"]>> ELSE <<>>
    IN  IF first /\ Len(found) = 0
        THEN [reader |-> r, plots |-> <<>>, error |-> Some("Exception: no files"),
              io |-> io1, located |-> None]
        ELSE IF Len(inputs) = 0
        THEN [reader |-> r, plots |-> <<>>, error |-> Some("IndexError: pop"),
              io |-> io1, located |-> None]
        ELSE LET popped == Pop0(inputs)
                 path == popped.item
                 r1 == [r EXCEPT !._inputs = Some(popped.rest), !._current_input = Some(path)]
                 rows == ReadRows(fsys[path].text, Get(r.separator))
                 built == BuildPlot(r1, rows, path)
             IN  [reader |-> r1, plots |-> built.plots, error |-> built.error,
                  io |-> io1 \o <<[op |-> "open", path |-> path]>>,
                  located |-> IF first THEN Some(found) ELSE None]

\* a has_finished() that takes an unresolved list for an empty one
HasFinishedWhenUnresolved(r) ==
    IF IsNone(r._inputs) THEN [ret |-> Some(TRUE), error |-> None]
    ELSE [ret |-> Some(Len(Get(r._inputs)) = 0), error |-> None]

\* has_finished(): len(self._inputs) == 0, a TypeError while _inputs is None
HasFinishedResult(r) ==
    IF IsNone(r._inputs) THEN [ret |-> None, error |-> Some("TypeError")]
    ELSE [ret |-> Some(Len(Get(r._inputs)) = 0), error |-> None]

-----------------------------------------------------------------------------
(* The writers: CsvPlotWriter, GraphicalPlot, SixelPlot, TerminalPlot.      *)

PLOT_LINE == "line"

PLOT_SCATTER == "scatter"

WriterClasses == {"CsvPlotWriter", "GraphicalPlot", "SixelPlot", "TerminalPlot"}

\* the object __init__ leaves, for each writer class
NewWriter(cls) ==
    [cls |-> cls, output_file |-> None, separator |-> None, plot_type |-> None,
     block |-> None, _tmp_file |-> None]

\* a plotting backend's current figure
EmptyFigure == [series |-> <<>>, xlabel |-> None, ylabel |-> None, title |-> None]

\* plt.plot / plt.scatter: one more series on the current figure
AddSeries(figure, type, x, y) ==
    [figure EXCEPT !.series = Append(@, [type |-> type, x |-> x, y |-> y])]

LabelX == <<"x">>

LabelY == <<"y">>

LabelValue == <<"v", "a", "l", "u", "e">>

OrElse(o, default) == IF IsNone(o) THEN default ELSE Get(o)

\* session.expand_placeholders(path) of a path without placeholders
ExpandPlaceholders(path) == path

\* the warning write_batch logs for a batch of more than one item
FirstOfWarning(w, data) ==
    [msg |-> IF w.cls = "CsvPlotWriter" THEN "Can only save the first of %d data items!"
             ELSE "Can only plot the first of %d data items!",
     arg |-> Some(Len(data))]

EmptyWarning(w) ==
    [msg |-> IF w.cls = "CsvPlotWriter" THEN "No data to save!" ELSE "No data to plot!",
     arg |-> None]

RECURSIVE ZipSwapped(_, _)
\* the pairs with the y value first
ZipSwapped(xs, ys) ==
    IF Len(xs) = 0 \/ Len(ys) = 0 THEN <<>>
    ELSE << <<Head(ys), Head(xs)>> >> \o ZipSwapped(Tail(xs), Tail(ys))

RECURSIVE Zip(_, _)
\* zip(xs, ys): the pairs, as many as the shorter sequence has
Zip(xs, ys) ==
    IF Len(xs) = 0 \/ Len(ys) = 0 THEN <<>>
    ELSE << <<Head(xs), Head(ys)>> >> \o Zip(Tail(xs), Tail(ys))

\* a Plot of another class is passed over in silence
UnhandledPlotClassSkipped(plot) == [text |-> <<>>, error |-> None]

\* lines 109-110: the exception raised inside the with block for a Plot of
\* another class, nothing having been written to the opened file
UnhandledPlotClass(plot) ==
    [text |-> <<>>, error |-> Some("Exception: Unhandled plot class")]

\* CsvPlotWriter.write_batch, lines 95-110: the file open(path, "w") holds
\* when the with block is left, and the exception raised inside it
CsvWrite(w, plot) ==
    LET sep == Get(w.separator)
    IN  IF plot.cls = "XYPlot"
        THEN [text |-> WriteRows(
                         << <<PyStr(OrElse(plot.x_label, LabelX)),
                              PyStr(OrElse(plot.y_label, LabelY))>> >>
                         \o Zip(plot.x_data, plot.y_data), sep),
              error |-> None]
        ELSE IF plot.cls = "SequencePlot"
        THEN [text |-> WriteRows(
                         << <<PyStr(OrElse(plot.label, LabelValue))>> >>
                         \o [i \in 1..Len(plot.data) |-> <<plot.data[i]>>], sep),
              error |-> None]
        ELSE UnhandledPlotClass(plot)

\* the drawing calls of the rendering writers on the figure they start from:
\* the figure they leave and the exception they raise.  matplotlib's scatter
\* needs x and y; plotext's takes the values alone.
Draw(w, plot, figure) ==
    LET bad_type == w.plot_type \notin {Some(PLOT_LINE), Some(PLOT_SCATTER)}
        type == IF bad_type THEN "none" ELSE Get(w.plot_type)
        titled(f) == [f EXCEPT !.title = Some(OrElse(plot.title, "Plot"))]
    IN  IF plot.cls = "XYPlot"
        THEN IF bad_type
             THEN [figure |-> figure, error |-> Some("Exception: Unhandled plot type")]
             ELSE [figure |-> titled([AddSeries(figure, type, Some(plot.x_data), plot.y_data)
                                        EXCEPT !.xlabel = Some(OrElse(plot.x_label, LabelX)),
                                               !.ylabel = Some(OrElse(plot.y_label, LabelY))]),
                   error |-> None]
        ELSE IF plot.cls = "SequencePlot"
        THEN IF bad_type
             THEN [figure |-> figure, error |-> Some("Exception: Unhandled plot type")]
             ELSE IF type = PLOT_SCATTER /\ w.cls # "TerminalPlot"
             THEN [figure |-> figure, error |-> Some("TypeError: scatter")]
             ELSE [figure |-> titled([AddSeries(figure, type, None, plot.data)
                                        EXCEPT !.ylabel = Some(OrElse(plot.label, LabelValue))]),
                   error |-> None]
        ELSE [figure |-> figure, error |-> Some("Exception: Unhandled plot class")]

\* the figure a rendering writer draws on: matplotlib's cleared by plt.clf()
\* (GraphicalPlot line 106, SixelPlot line 116), plotext's as it stands
StartFigure(w, mpl, ptx) == IF w.cls = "TerminalPlot" THEN ptx ELSE EmptyFigure

\* the last item of the batch instead of the first
LastItem(data) == data[Len(data)]

\* data[0], the one item of the batch that is written
FirstItem(data) == data[1]

\* an empty batch is logged only after the output was opened for writing and
\* the figure cleared
NoDataAfterOpening(w, fsys, mpl, ptx) ==
    [fs |-> IF IsNone(w.output_file) THEN fsys
            ELSE [fsys EXCEPT ![Get(w.output_file)] =
                    IF w.cls = "CsvPlotWriter" THEN TextFile(<<>>) ELSE ImageFile(EmptyFigure)],
     plt |-> IF w.cls \in {"GraphicalPlot", "SixelPlot"} THEN EmptyFigure ELSE mpl,
     plx |-> IF w.cls = "TerminalPlot" THEN EmptyFigure ELSE ptx,
     out |-> <<>>, log |-> <<EmptyWarning(w)>>, error |-> None]

\* lines 89-91: an empty batch is logged and nothing else is done
NoDataResult(w, fsys, mpl, ptx) ==
    [fs |-> fsys, plt |-> mpl, plx |-> ptx, out |-> <<>>,
     log |-> <<EmptyWarning(w)>>, error |-> None]

\* write_batch(data): everything the call leaves behind
WriteBatchResult(w, data, fsys, mpl, ptx) ==
    IF Len(data) = 0
    THEN NoDataResult(w, fsys, mpl, ptx)
    ELSE
    LET warn == IF Len(data) > 1 THEN <<FirstOfWarning(w, data)>> ELSE <<>>
        plot == FirstItem(data)
        path == IF IsNone(w.output_file) THEN None
                ELSE Some(ExpandPlaceholders(Get(w.output_file)))
    IN  IF w.cls = "CsvPlotWriter"
        THEN LET res == CsvWrite(w, plot)
             IN  [fs |-> [fsys EXCEPT ![Get(path)] = TextFile(res.text)],
                  plt |-> mpl, plx |-> ptx, out |-> <<>>,
                  log |-> warn, error |-> res.error]
        ELSE
        LET drawn == Draw(w, plot, StartFigure(w, mpl, ptx))
            fig == drawn.figure
            ok == IsNone(drawn.error)
            saved == IF ok /\ ~IsNone(path)
                     THEN [fsys EXCEPT ![Get(path)] = ImageFile(fig)] ELSE fsys
        IN  IF w.cls = "GraphicalPlot"
            THEN [fs |-> saved, plt |-> fig, plx |-> ptx, out |-> <<>>,
                  log |-> warn, error |-> drawn.error]
            ELSE IF w.cls = "SixelPlot"
            THEN [fs |-> IF ok THEN [saved EXCEPT ![Get(w._tmp_file)] = ImageFile(fig)]
                         ELSE saved,
                  plt |-> fig, plx |-> ptx,
                  out |-> IF ok THEN <<[sixel |-> ImageFile(fig)]>> ELSE <<>>,
                  log |-> warn, error |-> drawn.error]
            ELSE [fs |-> saved, plt |-> mpl, plx |-> fig,
                  out |-> IF ok THEN <<[shown |-> fig]>> ELSE <<>>,
                  log |-> warn, error |-> drawn.error]

\* _apply_args of the writer's class: each class stores its own options
ApplyWriterArgs(w, ns) ==
    IF w.cls = "CsvPlotWriter"
    THEN [w EXCEPT !.output_file = ns.output, !.separator = ns.separator]
    ELSE IF w.cls = "GraphicalPlot"
    THEN [w EXCEPT !.output_file = ns.output, !.plot_type = ns.plot_type,
                   !.block = ns.block]
    ELSE [w EXCEPT !.output_file = ns.output, !.plot_type = ns.plot_type]

\* initialize(): SixelPlot chooses its temporary file, the others do nothing
InitializeWriter(w) ==
    IF w.cls = "SixelPlot" THEN [w EXCEPT !._tmp_file = Some(TmpPng)] ELSE w

\* a finalize() that never removes the temporary file
FinalizeLeavesTheFile(w, fsys) == {[fs |-> fsys, remove_failed |-> FALSE]}

\* finalize(): SixelPlot removes its temporary file if it exists; a failure of
\* os.remove is swallowed and leaves the file
FinalizeResults(w, fsys) ==
    IF w.cls = "SixelPlot" /\ ~IsNone(w._tmp_file) /\ fsys[Get(w._tmp_file)].kind # "none"
    THEN {[fs |-> [fsys EXCEPT ![Get(w._tmp_file)] = NoFile], remove_failed |-> FALSE],
          [fs |-> fsys, remove_failed |-> TRUE]}
    ELSE {[fs |-> fsys, remove_failed |-> FALSE]}

-----------------------------------------------------------------------------
(* The inputs of the model.                                                 *)

Seps == {",", ";"}

Columns == {<<"1">>, <<"2">>}

SourceLists == {<<InA>>, <<InA, InB>>, <<InB, InA>>}

\* the namespaces argparse can hand a writer of class cls
Namespaces(cls) ==
    IF cls = "CsvPlotWriter"
    THEN {[output |-> Some(OutCsv), separator |-> Some(s), plot_type |-> None,
           block |-> None] : s \in Seps}
    ELSE IF cls = "GraphicalPlot"
    THEN {[output |-> o, separator |-> None, plot_type |-> Some(t), block |-> Some(b)] :
           o \in {None, Some(OutPng)}, t \in {PLOT_LINE, PLOT_SCATTER}, b \in BOOLEAN}
    ELSE {[output |-> o, separator |-> None, plot_type |-> Some(t), block |-> None] :
           o \in {None, Some(OutPng)}, t \in {PLOT_LINE, PLOT_SCATTER}}

\* the XYPlot of a well-formed file's columns, values as numbers
NumberPlot(n) ==
    XYPlot(Some("T"), [i \in 1..n |-> PyInt(i)], Some(<<"t">>),
           [i \in 1..n |-> PyInt(10 * i)], Some(<<"v">>), [source |-> InA])

\* an XYPlot without labels whose values need quoting, or are None or empty
OddPlot ==
    XYPlot(None, <<PyStr(<<"a", ",", "b">>), PyNone>>, None,
           <<PyStr(<<QuoteChar, ";">>), PyStr(<<>>)>>, None, [source |-> InB])

SeriesPlot ==
    SequencePlot(None, <<PyStr(<<"5">>), PyStr(<<>>)>>, None, [source |-> InA])

\* a Plot that is neither an XYPlot nor a SequencePlot
OtherPlot == [cls |-> "Plot", title |-> None, metadata |-> [source |-> InA]]

SamplePlots == {NumberPlot(2), OddPlot, SeriesPlot, OtherPlot}

Batches ==
    {<<>>} \cup {<<p>> : p \in SamplePlots} \cup {<<p, q>> : p, q \in SamplePlots}

RoundTripPlots == {NumberPlot(n) : n \in 0..MaxRows} \cup {OddPlot}

\* what was at the output paths before the pipeline ran
OldText == TextFile(<<"o", "l", "d", CR, LF>>)

OldImage == ImageFile([EmptyFigure EXCEPT !.title = Some("old")])

-----------------------------------------------------------------------------
(* The actions: one per call the framework makes.                           *)

Call(op, arg, ret) == [op |-> op, arg |-> arg, ret |-> ret]

ReaderApplyArgs(input, title, xd, xl, yd, yl, sep) ==
    /\ phase.reader = "constructed"
    /\ reader' = ApplyArgs(reader, input, title, xd, xl, yd, yl, sep)
    /\ phase' = [phase EXCEPT !.reader = "configured"]
    /\ last' = Call("reader._apply_args", None, None)
    /\ error' = None
    /\ UNCHANGED <<session, writer, fs, plt, plx, stdout, log, emitted, io, resolved, calls>>

ReaderInitialize ==
    /\ phase.reader \in {"configured", "initialized"}
    /\ \E res \in {InitializeResult(reader)} :
           /\ reader' = res.reader
           /\ error' = res.error
           /\ io' = res.io
           /\ phase' = [phase EXCEPT !.reader = IF IsNone(res.error) THEN "initialized"
                                                 ELSE "failed"]
    /\ emitted' = <<>>
    /\ resolved' = None
    /\ last' = Call("reader.initialize", None, None)
    /\ UNCHANGED <<session, writer, fs, plt, plx, stdout, log, calls>>

Read ==
    /\ phase.reader = "initialized"
    /\ Len(io) < MaxIo
    /\ \E res \in {ReadResult(reader, fs)} :
           /\ reader' = res.reader
           /\ session' = [session EXCEPT !.current_input = res.reader._current_input]
           /\ emitted' = emitted \o res.plots
           /\ error' = res.error
           /\ io' = io \o res.io
           /\ resolved' = IF IsNone(res.located) THEN resolved ELSE res.located
    /\ last' = Call("reader.read", None, None)
    /\ UNCHANGED <<writer, fs, plt, plx, stdout, log, phase, calls>>

HasFinished ==
    /\ phase.reader = "initialized"
    /\ \E res \in {HasFinishedResult(reader)} :
           /\ last' = Call("reader.has_finished", None, res.ret)
           /\ error' = res.error
    /\ UNCHANGED <<reader, session, writer, fs, plt, plx, stdout, log, emitted, io,
                   resolved, phase, calls>>

WriterApplyArgs(ns) ==
    /\ phase.writer = "constructed"
    /\ writer' = ApplyWriterArgs(writer, ns)
    /\ phase' = [phase EXCEPT !.writer = "configured"]
    /\ last' = Call("writer._apply_args", None, None)
    /\ error' = None
    /\ UNCHANGED <<reader, session, fs, plt, plx, stdout, log, emitted, io, resolved, calls>>

WriterInitialize ==
    /\ phase.writer = "configured"
    /\ writer' = InitializeWriter(writer)
    /\ phase' = [phase EXCEPT !.writer = "initialized"]
    /\ last' = Call("writer.initialize", None, None)
    /\ error' = None
    /\ UNCHANGED <<reader, session, fs, plt, plx, stdout, log, emitted, io, resolved, calls>>

WriteBatch(data) ==
    /\ phase.writer = "initialized"
    /\ calls < MaxCalls
    /\ \E res \in {WriteBatchResult(writer, data, fs, plt, plx)} :
           /\ fs' = res.fs
           /\ plt' = res.plt
           /\ plx' = res.plx
           /\ stdout' = stdout \o res.out
           /\ log' = log \o res.log
           /\ error' = res.error
    /\ calls' = calls + 1
    /\ last' = Call("writer.write_batch", Some(data), None)
    /\ UNCHANGED <<reader, session, writer, emitted, io, resolved, phase>>

WriterFinalize ==
    /\ phase.writer = "initialized"
    /\ \E res \in FinalizeResults(writer, fs) :
           /\ fs' = res.fs
           /\ last' = Call("writer.finalize", Some([remove_failed |-> res.remove_failed]), None)
    /\ phase' = [phase EXCEPT !.writer = "finalized"]
    /\ error' = None
    /\ UNCHANGED <<reader, session, writer, plt, plx, stdout, log, emitted, io, resolved, calls>>

-----------------------------------------------------------------------------
(* The specifications.                                                      *)

\* the state after construction, whatever the files and the writer's class
Constructed(cls) ==
    /\ reader = NewReader
    /\ session = [current_input |-> None]
    /\ writer = NewWriter(cls)
    /\ plt = EmptyFigure
    /\ plx = EmptyFigure
    /\ stdout = <<>>
    /\ log = <<>>
    /\ emitted = <<>>
    /\ error = None
    /\ io = <<>>
    /\ resolved = None
    /\ last = Call("__init__", None, None)
    /\ phase = [reader |-> "constructed", writer |-> "constructed"]
    /\ calls = 0

\* the reader over two input files
Init ==
    /\ Constructed("CsvPlotWriter")
    /\ \E a \in FileTexts :
          fs = [p \in Paths |-> IF p = InA THEN TextFile(a)
                                ELSE IF p = InB THEN TextFile(GoodFile(1)) ELSE NoFile]

Next ==
    \/ \E input \in SourceLists, title \in {None, Some("T")},
          xd \in {None} \cup {Some(c) : c \in Columns}, xl \in {None, Some(<<"X">>)},
          yd \in {None} \cup {Some(c) : c \in Columns}, yl \in {None, Some(<<"Y">>)},
          sep \in {None, Some(";")} :
          ReaderApplyArgs(Some(input), title, xd, xl, yd, yl, sep)
    \/ ReaderInitialize
    \/ Read
    \/ HasFinished

Spec == Init /\ [][Next]_vars

\* one writer of any class, with or without files at its output paths
InitWriters ==
    /\ \E cls \in WriterClasses : Constructed(cls)
    /\ \E old \in BOOLEAN :
          fs = [p \in Paths |-> IF old /\ p = OutCsv THEN OldText
                                ELSE IF old /\ p = OutPng THEN OldImage ELSE NoFile]

NextWriters ==
    \/ \E ns \in Namespaces(writer.cls) : WriterApplyArgs(ns)
    \/ WriterInitialize
    \/ \E data \in Batches : WriteBatch(data)
    \/ WriterFinalize

SpecWriters == InitWriters /\ [][NextWriters]_vars

\* the CSV writer followed by the CSV reader on the file it wrote
InitRoundTrip ==
    /\ Constructed("CsvPlotWriter")
    /\ fs = [p \in Paths |-> NoFile]

NextRoundTrip ==
    \/ \E ns \in Namespaces(writer.cls) : WriterApplyArgs(ns)
    \/ WriterInitialize
    \/ \E plot \in RoundTripPlots : WriteBatch(<<plot>>)
    \/ \E sep \in Seps :
          ReaderApplyArgs(Some(<<OutCsv>>), None, Some(<<"1">>), None, Some(<<"2">>),
                          None, Some(sep))
    \/ ReaderInitialize
    \/ Read

SpecRoundTrip == InitRoundTrip /\ [][NextRoundTrip]_vars

-----------------------------------------------------------------------------
(* Properties of CsvPlotReader.read().                                      *)

\* the last call was a read() that opened a file: it returned or it raised
\* the IndexError of a short row
ReadOpened == last.op = "reader.read" /\ error \in {None, Some("IndexError")}

\* the rows of the file that read() opened
LastRows == ReadRows(fs[Get(reader._current_input)].text, Get(reader.separator))

\* the Plot that read() yielded last
LastPlot == emitted[Len(emitted)]

\* every row has a cell at the configured columns
AllHaveCells(rows) ==
    \A i \in 1..Len(rows) :
       /\ HasCell(rows[i], Get(reader._y_col))
       /\ IsNone(reader._x_col) \/ HasCell(rows[i], Get(reader._x_col))

\* the cells of rows from..Len(rows) at 0-based column col, as Python strings
ColumnFrom(rows, col, from) ==
    [i \in 1..(Len(rows) - from + 1) |-> PyStr(rows[i + from - 1][col + 1])]

\* C1: with an X and a Y column configured, read() of a file whose rows all
\* have both cells yields an XYPlot whose x_data and y_data are the cells of
\* the rows after the header, in row order (row_count - 1 of each), and whose
\* x_label and y_label are the header's cells.
C1_XYPlotHoldsTheDataRows ==
    (ReadOpened /\ ~IsNone(reader._x_col)) =>
        \A rows \in {LastRows} :
           (Len(rows) >= 1 /\ AllHaveCells(rows)) =>
              /\ error = None
              /\ Len(emitted) >= 1
              /\ LastPlot.cls = "XYPlot"
              /\ Len(LastPlot.x_data) = Len(rows) - 1
              /\ Len(LastPlot.y_data) = Len(rows) - 1
              /\ LastPlot.x_data = ColumnFrom(rows, Get(reader._x_col), 2)
              /\ LastPlot.y_data = ColumnFrom(rows, Get(reader._y_col), 2)
              /\ LastPlot.x_label = Some(rows[1][Get(reader._x_col) + 1])
              /\ LastPlot.y_label = Some(rows[1][Get(reader._y_col) + 1])

\* C2: with a Y column only, read() yields a SequencePlot, never an XYPlot,
\* with one element of data per row after the header.
C2_SequencePlotHoldsTheDataRows ==
    (ReadOpened /\ IsNone(reader._x_col)) =>
        \A rows \in {LastRows} :
           (Len(rows) >= 1 /\ AllHaveCells(rows)) =>
              /\ error = None
              /\ Len(emitted) >= 1
              /\ LastPlot.cls = "SequencePlot"
              /\ Len(LastPlot.data) = Len(rows) - 1

\* the labels of a Plot, whichever its class
XLabelOf(plot) == IF plot.cls = "XYPlot" THEN plot.x_label ELSE None

YLabelOf(plot) == IF plot.cls = "XYPlot" THEN plot.y_label ELSE plot.label

\* C3: the Plot read() yields carries the configured x-axis / y-axis label
\* override; the header's cell is the label only where none is configured.
C3_LabelOverridesAreUsed ==
    (ReadOpened /\ error = None /\ Len(emitted) >= 1) =>
        \A rows \in {LastRows} :
           Len(rows) >= 1 =>
              /\ YLabelOf(LastPlot) =
                    (IF IsNone(reader.y_label) THEN Some(rows[1][Get(reader._y_col) + 1])
                     ELSE reader.y_label)
              /\ LastPlot.cls = "XYPlot" =>
                    XLabelOf(LastPlot) =
                       (IF IsNone(reader.x_label) THEN Some(rows[1][Get(reader._x_col) + 1])
                        ELSE reader.x_label)

\* the text csv.writer makes of each value of a data sequence
AsText(values) == [i \in 1..Len(values) |-> PyStr(FieldText(values[i]))]

\* read() has just read, with X column 1, Y column 2 and the writer's
\* separator, the file that CsvPlotWriter.write_batch made of plot
ReadBack(plot) ==
    /\ ReadOpened
    /\ reader._current_input = Some(OutCsv)
    /\ reader.x_data = Some(<<"1">>)
    /\ reader.y_data = Some(<<"2">>)
    /\ reader.separator = writer.separator
    /\ fs[OutCsv] = TextFile(CsvWrite(writer, plot).text)

\* C4: an XYPlot written by CsvPlotWriter and read back by CsvPlotReader
\* (X column 1, Y column 2, same separator) has the x_data and y_data of the
\* written Plot, as text, element for element.
C4_RoundTripReproducesTheData ==
    \A plot \in RoundTripPlots :
       (Len(plot.x_data) = Len(plot.y_data) /\ ReadBack(plot)) =>
          /\ error = None
          /\ Len(emitted) >= 1
          /\ LastPlot.cls = "XYPlot"
          /\ LastPlot.x_data = AsText(plot.x_data)
          /\ LastPlot.y_data = AsText(plot.y_data)

\* what the code does instead: the text of the header row comes first
RoundTripKeepsTheHeader ==
    \A plot \in RoundTripPlots :
       ReadBack(plot) =>
          /\ error = None
          /\ LastPlot.x_data = <<PyStr(OrElse(plot.x_label, LabelX))>> \o AsText(plot.x_data)
          /\ LastPlot.y_data = <<PyStr(OrElse(plot.y_label, LabelY))>> \o AsText(plot.y_data)

\* C5: read() of a file that holds a header row and nothing else yields a
\* Plot whose data sequences are empty, and raises nothing.
C5_HeaderOnlyFileGivesEmptyData ==
    ReadOpened =>
        \A rows \in {LastRows} :
           (Len(rows) = 1 /\ AllHaveCells(rows)) =>
              /\ error = None
              /\ Len(emitted) >= 1
              /\ IF LastPlot.cls = "XYPlot"
                 THEN LastPlot.x_data = <<>> /\ LastPlot.y_data = <<>>
                 ELSE LastPlot.data = <<>>

-----------------------------------------------------------------------------
(* Properties of the reader's file list.                                    *)

\* the files read() has opened since initialize(), in order
Opens == SelectSeq(io, LAMBDA e : e.op = "open")

\* read() of this file yields a Plot: every row has the configured cells
Readable(path) == AllHaveCells(ReadRows(fs[path].text, Get(reader.separator)))

\* C6: once the list of n >= 1 files is resolved (once, by the first read()),
\* the k-th read() takes the k-th file of the list off its front, the Plot it
\* yields has that file as its source, one Plot per read(), and has_finished()
\* is true exactly when n reads have been made.
C6_OnePlotPerFileInOrder ==
    ~IsNone(reader._inputs) =>
        /\ ~IsNone(resolved)
        /\ \A files \in {Get(resolved)}, opens \in {Opens} :
              /\ Len(files) >= 1
              /\ Len(SelectSeq(io, LAMBDA e : e.op = "locate_files")) = 1
              /\ Len(opens) \in 1..Len(files)
              /\ \A j \in 1..Len(opens) : opens[j].path = files[j]
              /\ Get(reader._inputs) = SubSeq(files, Len(opens) + 1, Len(files))
              /\ HasFinishedResult(reader) =
                    [ret |-> Some(Len(opens) = Len(files)), error |-> None]
              /\ last.op = "reader.has_finished" => last.ret = Some(Len(opens) = Len(files))
              /\ Len(emitted) <= Len(opens)
              /\ (ReadOpened /\ error = None) =>
                    /\ Len(emitted) >= 1
                    /\ LastPlot.metadata.source = files[Len(opens)]
              /\ (\A j \in 1..Len(opens) : Readable(files[j])) =>
                    /\ Len(emitted) = Len(opens)
                    /\ \A j \in 1..Len(opens) : emitted[j].metadata.source = files[j]

\* two files were read, two Plots yielded, and has_finished() returned True
C6_Witness ==
    /\ last.op = "reader.has_finished"
    /\ last.ret = Some(TRUE)
    /\ Len(emitted) = 2
    /\ ~IsNone(resolved)
    /\ Len(Get(resolved)) = 2

\* C10: without a Y column initialize() raises before any I/O: no source is
\* resolved, no file opened, and _inputs stays None.
C10_NoYColumnFailsBeforeIo ==
    (last.op = "reader.initialize" /\ IsNone(reader.y_data)) =>
        /\ error = Some("Exception: Y column")
        /\ io = <<>>
        /\ IsNone(reader._inputs)
        /\ IsNone(resolved)
        /\ phase.reader = "failed"

\* initialize() was called on a reader with sources but no Y column
C10_Witness ==
    /\ last.op = "reader.initialize"
    /\ IsNone(reader.y_data)
    /\ ~IsNone(reader.source)
    /\ ~IsNone(error)

-----------------------------------------------------------------------------
(* Properties of write_batch.                                               *)

Renderers == {"GraphicalPlot", "SixelPlot", "TerminalPlot"}

\* the step is a write_batch call with a batch of two
WroteBatchOfTwo == last'.op = "writer.write_batch" /\ Len(Get(last'.arg)) = 2

\* the call left what write_batch of the batch's first item alone leaves, the
\* log apart, and logged one warning with the given number
OnlyTheFirstWritten(number) ==
    \A data \in {Get(last'.arg)} :
       \A one \in {WriteBatchResult(writer, <<data[1]>>, fs, plt, plx)} :
          /\ fs' = one.fs
          /\ plt' = one.plt
          /\ plx' = one.plx
          /\ stdout' = stdout \o one.out
          /\ error' = one.error
          /\ writer.cls = "CsvPlotWriter" =>
                fs'[OutCsv] = TextFile(CsvWrite(writer, data[1]).text)
          /\ Len(log') = Len(log) + 1
          /\ log'[Len(log')].arg = Some(number)

\* C7: of a batch of two Plots only the first is written or rendered, the
\* second has no effect, and the warning names the discarded count, 1.
C7_WarningNamesTheDiscardedCount ==
    [][WroteBatchOfTwo => OnlyTheFirstWritten(1)]_vars

\* C7, amended: of a batch of two Plots only the first is written or
\* rendered, the second has no effect, and the warning names the number of
\* items in the batch, 2.
C7_WarningNamesTheBatchSize ==
    [][WroteBatchOfTwo => OnlyTheFirstWritten(2)]_vars

\* a batch of two different Plots was written without error by the CSV writer
C7_Witness ==
    /\ last.op = "writer.write_batch"
    /\ Len(Get(last.arg)) = 2
    /\ Get(last.arg)[1] # Get(last.arg)[2]
    /\ writer.cls = "CsvPlotWriter"
    /\ error = None
    /\ Len(log) >= 1

\* C8: an empty batch is logged and nothing is written: every file is as it
\* was, the plotting backends' figures are untouched, no temporary file
\* appears and nothing goes to standard output.
C8_EmptyBatchWritesNothing ==
    [][(last'.op = "writer.write_batch" /\ Get(last'.arg) = <<>>) =>
          /\ fs' = fs
          /\ plt' = plt
          /\ plx' = plx
          /\ stdout' = stdout
          /\ writer' = writer
          /\ error' = None
          /\ log' = Append(log, EmptyWarning(writer))]_vars

\* an empty batch was passed after a Plot was rendered over an existing file
C8_Witness ==
    /\ last.op = "writer.write_batch"
    /\ last.arg = Some(<<>>)
    /\ calls = 2
    /\ fs[OutPng] # NoFile
    /\ fs[OutPng] # OldImage
    /\ fs[OutCsv] = OldText
    /\ Len(log) >= 1

\* the figure of the backend the writer draws with
FigureOf(w) == IF w.cls = "TerminalPlot" THEN plx ELSE plt

\* C9: after a non-empty write_batch of a rendering writer the figure, and
\* what was saved or streamed of it, holds the series, labels and title of
\* the Plot of this call and nothing of earlier calls.
C9_FigureHoldsOnlyTheLatestPlot ==
    (/\ last.op = "writer.write_batch"
     /\ writer.cls \in Renderers
     /\ Len(Get(last.arg)) >= 1
     /\ error = None) =>
        \A want \in {Draw(writer, FirstItem(Get(last.arg)), EmptyFigure).figure} :
           /\ FigureOf(writer) = want
           /\ ~IsNone(writer.output_file) => fs[Get(writer.output_file)] = ImageFile(want)
           /\ writer.cls = "SixelPlot" =>
                 /\ fs[Get(writer._tmp_file)] = ImageFile(want)
                 /\ stdout[Len(stdout)] = [sixel |-> ImageFile(want)]
           /\ writer.cls = "TerminalPlot" => stdout[Len(stdout)] = [shown |-> want]

\* what holds of the two writers that call plt.clf()
ClearingWritersHoldOnlyTheLatestPlot ==
    writer.cls # "TerminalPlot" => C9_FigureHoldsOnlyTheLatestPlot

-----------------------------------------------------------------------------
(* Properties of CsvPlotWriter.write_batch.                                 *)

\* the step is a write_batch call of the CSV writer with a non-empty batch
CsvWroteBatch ==
    /\ last'.op = "writer.write_batch"
    /\ writer.cls = "CsvPlotWriter"
    /\ Len(Get(last'.arg)) >= 1

\* the rows the written file is to hold: the labels, then the elements
ExpectedRows(plot) ==
    IF plot.cls = "XYPlot"
    THEN << <<OrElse(plot.x_label, LabelX), OrElse(plot.y_label, LabelY)>> >>
         \o [i \in 1..Len(plot.x_data) |->
               <<FieldText(plot.x_data[i]), FieldText(plot.y_data[i])>>]
    ELSE << <<OrElse(plot.label, LabelValue)>> >>
         \o [i \in 1..Len(plot.data) |-> <<FieldText(plot.data[i])>>]

ElementsOf(plot) == IF plot.cls = "XYPlot" THEN Len(plot.x_data) ELSE Len(plot.data)

\* C11: the file CsvPlotWriter.write_batch writes for an XYPlot or a
\* SequencePlot holds the header row of the labels ("x"/"y" or "value" where
\* a label is None) and then one row per element, in input order: 1 + n rows;
\* and writing the Plot that was written last again leaves the same content.
C11_HeaderThenOneRowPerElement ==
    [][CsvWroteBatch =>
          \A plot \in {FirstItem(Get(last'.arg))} :
             (/\ plot.cls \in {"XYPlot", "SequencePlot"}
              /\ plot.cls = "XYPlot" => Len(plot.x_data) = Len(plot.y_data)) =>
                /\ error' = None
                /\ fs'[OutCsv].kind = "text"
                /\ \A rows \in {ReadRows(fs'[OutCsv].text, Get(writer.separator))} :
                      /\ rows = ExpectedRows(plot)
                      /\ Len(rows) = 1 + ElementsOf(plot)
                /\ (/\ last.op = "writer.write_batch"
                    /\ Len(Get(last.arg)) >= 1
                    /\ FirstItem(Get(last.arg)) = plot) => fs'[OutCsv] = fs[OutCsv]
                /\ \A p \in Paths \ {OutCsv} : fs'[p] = fs[p]]_vars

\* the Plot whose values need quoting was written twice, one call after the other
C11_Witness ==
    /\ last.op = "writer.write_batch"
    /\ writer.cls = "CsvPlotWriter"
    /\ calls = 2
    /\ Get(last.arg) = <<OddPlot>>
    /\ error = None
    /\ fs[OutCsv] = TextFile(CsvWrite(writer, OddPlot).text)

-----------------------------------------------------------------------------
(* Properties of SixelPlot's temporary file.                                *)

\* the step is a write_batch call of SixelPlot with a non-empty batch that
\* raised nothing
SixelWroteBatch ==
    /\ last'.op = "writer.write_batch"
    /\ writer.cls = "SixelPlot"
    /\ Len(Get(last'.arg)) >= 1
    /\ error' = None

SixelFinalized ==
    /\ last'.op = "writer.finalize"
    /\ writer.cls = "SixelPlot"

\* C12: a successful non-empty write_batch of SixelPlot saves the figure to
\* the temporary file initialize() chose, with or without an output path, and
\* to the output path when there is one, then writes the sixel encoding of the
\* temporary file to standard output; finalize() raises nothing and leaves no
\* temporary file behind unless removing it failed.
C12_TemporaryFileIsWrittenThenRemoved ==
    [][/\ SixelWroteBatch =>
            /\ writer._tmp_file = Some(TmpPng)
            /\ fs'[TmpPng] = ImageFile(plt')
            /\ stdout' = Append(stdout, [sixel |-> fs'[TmpPng]])
            /\ IF IsNone(writer.output_file)
               THEN \A p \in Paths \ {TmpPng} : fs'[p] = fs[p]
               ELSE /\ fs'[Get(writer.output_file)] = ImageFile(plt')
                    /\ \A p \in Paths \ {TmpPng, Get(writer.output_file)} : fs'[p] = fs[p]
       /\ SixelFinalized =>
            /\ error' = None
            /\ IF Get(last'.arg).remove_failed
               THEN fs' = fs
               ELSE /\ fs'[TmpPng] = NoFile
                    /\ \A p \in Paths \ {TmpPng} : fs'[p] = fs[p]]_vars

\* SixelPlot without an output path wrote twice and was finalized: both
\* encodings are on standard output and the temporary file is gone
C12_Witness ==
    /\ last.op = "writer.finalize"
    /\ writer.cls = "SixelPlot"
    /\ IsNone(writer.output_file)
    /\ ~Get(last.arg).remove_failed
    /\ calls = 2
    /\ Len(stdout) = 2
    /\ fs[TmpPng] = NoFile

-----------------------------------------------------------------------------
(* Properties of read() on a file with a short row.                         *)

\* the step is a read() that opened a file
ReadOpenedFile ==
    /\ last'.op = "reader.read"
    /\ Len(io') > Len(io)
    /\ io'[Len(io')].op = "open"

\* the position of path in the list of files
RECURSIVE IndexOf(_, _)
IndexOf(files, path) ==
    IF Len(files) = 0 THEN 0
    ELSE IF Head(files) = path THEN 1
    ELSE 1 + IndexOf(Tail(files), path)

\* C13: read() of a file with a row that lacks the cell of the X or the Y
\* column raises an IndexError and yields no Plot; the file is off the pending
\* list already, it was not opened before and is not pending again, and
\* has_finished() tells whether any file after it is left.
C13_ShortRowFailsAndTheFileIsDropped ==
    [][ReadOpenedFile =>
          \A path \in {io'[Len(io')].path} :
             ~Readable(path) =>
                /\ error' = Some("IndexError")
                /\ emitted' = emitted
                /\ reader'._current_input = Some(path)
                /\ \A files \in {Get(resolved')}, rest \in {Get(reader'._inputs)} :
                      /\ rest = SubSeq(files, IndexOf(files, path) + 1, Len(files))
                      /\ \A j \in 1..Len(rest) : rest[j] # path
                      /\ HasFinishedResult(reader') =
                            [ret |-> Some(Len(rest) = 0), error |-> None]
                /\ \A e \in {io[j] : j \in 1..Len(io)} : e.op = "open" => e.path # path]_vars

\* the first of two files had a short row: its read() raised, the read() after
\* it yielded the Plot of the second file, and has_finished() returned True
C13_Witness ==
    /\ last.op = "reader.has_finished"
    /\ last.ret = Some(TRUE)
    /\ Len(Opens) = 2
    /\ ~Readable(Opens[1].path)
    /\ Len(emitted) = 1
    /\ emitted[1].metadata.source = Opens[2].path

-----------------------------------------------------------------------------
(* Properties of CsvPlotWriter.write_batch on a Plot of another class.      *)

\* the last call was a write_batch of the CSV writer whose first item is
\* neither an XYPlot nor a SequencePlot
CsvWroteOtherClass ==
    /\ last.op = "writer.write_batch"
    /\ writer.cls = "CsvPlotWriter"
    /\ Len(Get(last.arg)) >= 1
    /\ FirstItem(Get(last.arg)).cls \notin {"XYPlot", "SequencePlot"}

\* C14: write_batch of the CSV writer on a first item that is neither an
\* XYPlot nor a SequencePlot raises the unhandled-class exception, and the
\* output file, opened before the class is looked at, is there and empty,
\* whatever it held.
C14_UnhandledClassLeavesAnEmptyFile ==
    CsvWroteOtherClass =>
        /\ error = Some("Exception: Unhandled plot class")
        /\ fs[ExpandPlaceholders(Get(writer.output_file))] = TextFile(<<>>)

\* the output path held a file from an earlier run, the first call wrote a
\* Plot of another class
C14_Witness ==
    /\ CsvWroteOtherClass
    /\ calls = 1
    /\ fs[OutPng] = OldImage
    /\ fs[OutCsv] = TextFile(<<>>)
    /\ error # None

-----------------------------------------------------------------------------
(* Properties of has_finished() and read() at the ends of the file list.    *)

\* C15: has_finished() raises instead of returning while the file list is
\* unresolved, which it is after every initialize() until the first read()
\* has resolved it, and returns a boolean from then on; a read() once
\* has_finished() is true raises on the pop from the empty list and yields
\* no Plot.
C15_HasFinishedNeedsAResolvedList ==
    [][/\ last'.op = "reader.has_finished" =>
            /\ IF IsNone(reader._inputs)
               THEN error' = Some("TypeError") /\ last'.ret = None
               ELSE error' = None /\ last'.ret \in {Some(TRUE), Some(FALSE)}
            /\ IsNone(reader._inputs) <=> io = <<>>
            /\ ~IsNone(reader._inputs) => io[1].op = "locate_files"
       /\ last'.op = "reader.initialize" => IsNone(reader'._inputs) /\ io' = <<>>
       /\ (last'.op = "reader.read" /\ HasFinishedResult(reader).ret = Some(TRUE)) =>
            /\ error' = Some("IndexError: pop")
            /\ emitted' = emitted
            /\ io' = io
            /\ reader' = reader]_vars

\* has_finished() was called between initialize() and the first read()
C15_Witness ==
    /\ last.op = "reader.has_finished"
    /\ phase.reader = "initialized"
    /\ io = <<>>
    /\ error = Some("TypeError")
    /\ last.ret = None

\* a read() after the last file raised on the pop
ReadPastTheEnd ==
    /\ last.op = "reader.read"
    /\ error = Some("IndexError: pop")
    /\ reader._inputs = Some(<<>>)

=============================================================================
